---- MODULE Spec2Model ----
(***************************************************************************)
(* A model of services/pdf-parser/app.py: the /parse request handler       *)
(* (parse_pdf), the two extractors (extract_with_pdfplumber,               *)
(* extract_with_camelot) and the helpers is_header_row and clean_rows.     *)
(*                                                                         *)
(* A string is a sequence of one-character strings; a cell is a string or  *)
(* None; a row is a sequence of cells; a table is a sequence of rows.      *)
(* The PDF libraries are the environment: what they return (page count,    *)
(* tables of a page, rows of a table, or an exception) is chosen by \E     *)
(* at the step where the code calls them.                                  *)
(***************************************************************************)
EXTENDS Integers, Sequences, FiniteSets, TLC

VARIABLES
    pc,              \* position of the request in parse_pdf and its callees
    hasFile,         \* 'file' in request.files
    filename,        \* file.filename
    tmpExists,       \* the temporary file is present on disk
    numPages,        \* len(pdf.pages)
    page_num,        \* pages the primary loop has taken so far
    nTables,         \* len(tables) of the current page / of the camelot TableList
    table_idx,       \* tables of the current list already processed
    all_rows,        \* the extractor's accumulator
    pages_processed, \* the primary extractor's counter
    result,          \* parse_pdf's local `result`
    response,        \* what the request returns
    exc,             \* origin of the exception in flight ("" when none)
    pageLog,         \* history: per page taken, <<tables extracted, tables surviving>>
    survivors,       \* history: the filtered tables the current extractor accepted
    primaryResult,   \* history: what extract_with_pdfplumber returned
    calls,           \* history: number of invocations per library / extractor entry
    latticeOutcome,  \* history: "none", "raised" or "returned"
    cin,             \* clean_rows study: the input row sequence
    cout1,           \* clean_rows study: clean_rows(cin)
    cout2,           \* clean_rows study: clean_rows(clean_rows(cin))
    cpc              \* clean_rows study: position

vars ==
    <<pc, hasFile, filename, tmpExists, numPages, page_num, nTables, table_idx,
      all_rows, pages_processed, result, response, exc, pageLog, survivors,
      primaryResult, calls, latticeOutcome, cin, cout1, cout2, cpc>>

reqVars == <<hasFile, filename>>
cleanVars == <<cin, cout1, cout2, cpc>>

-----------------------------------------------------------------------------
(* Bounds of the explored inputs *)

MaxPages == 2
MaxTables == 3
MaxCamelotTables == 3
MaxCols == 2
MaxCleanRows == 2

-----------------------------------------------------------------------------
(* Python values *)

None == <<"<None>">>

IsSpace(c) == c \in {" ", "\t", "\n"}

LowerOf(c) ==
    CASE c = "A" -> "a" [] c = "D" -> "d" [] c = "F" -> "f" [] c = "N" -> "n"
      [] c = "P" -> "p" [] c = "T" -> "t" [] c = "X" -> "x" [] OTHER -> c

lower(s) == [i \in 1..Len(s) |-> LowerOf(s[i])]

RECURSIVE lstrip(_)
lstrip(s) ==
    IF s = <<>> THEN <<>>
    ELSE IF IsSpace(Head(s)) THEN lstrip(Tail(s)) ELSE s

RECURSIVE rstrip(_)
rstrip(s) ==
    IF s = <<>> THEN <<>>
    ELSE IF IsSpace(s[Len(s)]) THEN rstrip(SubSeq(s, 1, Len(s) - 1)) ELSE s

strip(s) == rstrip(lstrip(s))

\* str(cell): a string is itself, None prints as 'None'
str(cell) == IF cell = None THEN <<"N", "o", "n", "e">> ELSE cell

\* truth value of a cell: None and '' are falsy
truthy(cell) == cell # None /\ cell # <<>>

endswith(s, suffix) ==
    /\ Len(s) >= Len(suffix)
    /\ SubSeq(s, Len(s) - Len(suffix) + 1, Len(s)) = suffix

Min(a, b) == IF a < b THEN a ELSE b

-----------------------------------------------------------------------------
(* is_header_row and clean_rows *)

\* the normal form under which two cells are compared
norm(cell) == lower(strip(str(cell)))

is_header_row(row, header_row) ==
    IF row = <<>> \/ header_row = <<>>
    THEN FALSE
    ELSE \E i \in 1..Min(3, Min(Len(row), Len(header_row))) :
            norm(row[i]) = norm(header_row[i])

cleaned_row_lstrip_only(row) ==
    [i \in 1..Len(row) |-> IF row[i] # None THEN lstrip(str(row[i])) ELSE <<>>]

cleaned_row(row) ==
    [i \in 1..Len(row) |-> IF row[i] # None THEN strip(str(row[i])) ELSE <<>>]

HasNonEmptyCell(row) == \E i \in 1..Len(row) : row[i] # <<>>

RECURSIVE clean_rows(_)
clean_rows(rows) ==
    IF rows = <<>> THEN <<>>
    ELSE LET c == cleaned_row(Head(rows))
         IN  IF HasNonEmptyCell(c)
             THEN <<c>> \o clean_rows(Tail(rows))
             ELSE clean_rows(Tail(rows))

-----------------------------------------------------------------------------
(* The row filter, the size test and the merge step of the two extractors *)

PlumberKeep_no_strip(row) ==
    row # <<>> /\ \E i \in 1..Len(row) : truthy(row[i])

PlumberKeep(row) ==
    row # <<>> /\ \E i \in 1..Len(row) : truthy(row[i]) /\ strip(str(row[i])) # <<>>

CamelotKeep(row) ==
    \E i \in 1..Len(row) : truthy(row[i]) /\ strip(str(row[i])) # <<>>

PlumberFilter(table) == SelectSeq(table, PlumberKeep)

CamelotFilter(table) == SelectSeq(table, CamelotKeep)

PlumberTooSmall_below_one(filtered_rows) == Len(filtered_rows) < 1

PlumberTooSmall(filtered_rows) == Len(filtered_rows) < 2

CamelotTooSmall(filtered_rows) == Len(filtered_rows) < 2

PlumberExtend_last_row(rows, filtered_rows) ==
    IF rows = <<>>
    THEN filtered_rows
    ELSE IF is_header_row(filtered_rows[1], rows[Len(rows)])
         THEN rows \o Tail(filtered_rows)
         ELSE rows \o filtered_rows

PlumberExtend(rows, filtered_rows) ==
    IF rows = <<>>
    THEN filtered_rows
    ELSE IF is_header_row(filtered_rows[1], rows[1])
         THEN rows \o Tail(filtered_rows)
         ELSE rows \o filtered_rows

CamelotExtend_always_skip(rows, filtered_rows) ==
    IF rows = <<>> THEN filtered_rows ELSE rows \o Tail(filtered_rows)

CamelotExtend(rows, filtered_rows) ==
    IF rows = <<>>
    THEN filtered_rows
    ELSE IF is_header_row(filtered_rows[1], rows[1])
         THEN rows \o Tail(filtered_rows)
         ELSE rows \o filtered_rows

\* parse_pdf's test for escalating to the fallback extractor
TooFewRows_at_most_two(res) == Len(res.rows) <= 2

TooFewRows(res) == Len(res.rows) < 2

\* the primary loop's page counter after a page with n tables
CountPage_every_page(count, n) == count + 1

CountPage(count, n) == IF n = 0 THEN count ELSE count + 1

\* where control goes when lattice mode raises
AfterLatticeRaise_propagate == "except"

AfterLatticeRaise == "camelot_stream"

-----------------------------------------------------------------------------
(* Inputs: requests, and what the PDF libraries may hand back *)

PdfName == <<"s", ".", "P", "D", "F">>
TxtName == <<"s", ".", "t", "x", "t">>
BareName == <<"p", "d", "f">>

Filenames == {<<>>, PdfName, TxtName, BareName}

H1 == << <<"D", "t">>, None >>
H2 == << <<" ", "d", "T", " ">>, <<"x">> >>
D1 == << <<"1">>, <<"x">> >>
D2 == << <<"2">>, None >>
EmptyRow == <<>>
BlankRow == << None, <<" ">> >>

\* tables page.extract_tables() may contain: cells are strings or None
PlumberTables ==
    { <<>>, <<H1>>, <<H1, BlankRow>>, <<EmptyRow, BlankRow>>,
      <<H1, D1>>, <<H1, BlankRow, D2>>, <<H2, D1, D2>>, <<D1, D2>>, <<D2, D1>> }

Hs == << <<"D", "t">>, <<>> >>
D2s == << <<"2">>, <<>> >>
BlankS == << <<>>, <<" ">> >>

\* what table.df.values.tolist() may be: every cell is a string
CamelotTables ==
    { <<>>, <<Hs>>, <<Hs, BlankS>>,
      <<Hs, D1>>, <<Hs, BlankS, D2s>>, <<H2, D1, D2s>>, <<D1, D2s>> }

NoResult ==
    [rows |-> <<>>, pages_processed |-> -1, method_used |-> "none", total_rows |-> -1]

NoResponse == [status |-> 0, error |-> "", message |-> "", body |-> NoResult]

ErrorResponse(code, text, msg) ==
    [status |-> code, error |-> text, message |-> msg, body |-> NoResult]

NoCalls == [plumber |-> 0, camelot |-> 0, lattice |-> 0, stream |-> 0]

TablesSeen == IF pageLog = <<>> THEN 0 ELSE
    LET RECURSIVE Sum(_)
        Sum(i) == IF i = 0 THEN 0 ELSE pageLog[i][1] + Sum(i - 1)
    IN  Sum(Len(pageLog))

-----------------------------------------------------------------------------
(* parse_pdf *)

Init ==
    /\ pc = "start"
    /\ hasFile \in BOOLEAN
    /\ filename \in IF hasFile THEN Filenames ELSE {<<>>}
    /\ tmpExists = FALSE
    /\ numPages = 0
    /\ page_num = 0
    /\ nTables = 0
    /\ table_idx = 0
    /\ all_rows = <<>>
    /\ pages_processed = 0
    /\ result = NoResult
    /\ response = NoResponse
    /\ exc = ""
    /\ pageLog = <<>>
    /\ survivors = <<>>
    /\ primaryResult = NoResult
    /\ calls = NoCalls
    /\ latticeOutcome = "none"
    /\ cin = <<>>
    /\ cout1 = <<>>
    /\ cout2 = <<>>
    /\ cpc = "off"

\* lines 58-67: the three checks on the upload
Validate ==
    /\ pc = "start"
    /\ IF ~hasFile
       THEN /\ response' = ErrorResponse(400, "No file uploaded", "")
            /\ pc' = "done"
       ELSE IF filename = <<>>
       THEN /\ response' = ErrorResponse(400, "Empty filename", "")
            /\ pc' = "done"
       ELSE IF ~endswith(lower(filename), <<".", "p", "d", "f">>)
       THEN /\ response' = ErrorResponse(400, "File must be a PDF", "")
            /\ pc' = "done"
       ELSE /\ response' = response
            /\ pc' = "create_tmp"
    /\ UNCHANGED <<reqVars, tmpExists, numPages, page_num, nTables, table_idx,
                   all_rows, pages_processed, result, exc, pageLog, survivors,
                   primaryResult, calls, latticeOutcome, cleanVars>>

\* line 70: NamedTemporaryFile(delete=False) creates the file
CreateTmp ==
    /\ pc = "create_tmp"
    /\ tmpExists' = TRUE
    /\ pc' = "save"
    /\ UNCHANGED <<reqVars, numPages, page_num, nTables, table_idx, all_rows,
                   pages_processed, result, response, exc, pageLog, survivors,
                   primaryResult, calls, latticeOutcome, cleanVars>>

\* lines 71-72: file.save succeeds and the with block is left
SaveUpload ==
    /\ pc = "save"
    /\ pc' = "plumber_open"
    /\ UNCHANGED <<reqVars, tmpExists, numPages, page_num, nTables, table_idx,
                   all_rows, pages_processed, result, response, exc, pageLog,
                   survivors, primaryResult, calls, latticeOutcome, cleanVars>>

\* line 71: file.save raises; the with block is outside the try of line 74, so
\* the exception leaves parse_pdf and the 500 handler of lines 236-239 answers
SaveUploadRaises ==
    /\ pc = "save"
    /\ response' = ErrorResponse(500, "Internal server error", "")
    /\ pc' = "done"
    /\ UNCHANGED <<reqVars, tmpExists, numPages, page_num, nTables, table_idx,
                   all_rows, pages_processed, result, exc, pageLog, survivors,
                   primaryResult, calls, latticeOutcome, cleanVars>>

-----------------------------------------------------------------------------
(* extract_with_pdfplumber *)

\* lines 76, 98-101: the call, the locals and pdfplumber.open
PlumberOpen ==
    /\ pc = "plumber_open"
    /\ calls' = [calls EXCEPT !.plumber = @ + 1]
    /\ \E n \in 0..MaxPages : numPages' = n
    /\ page_num' = 0
    /\ all_rows' = <<>>
    /\ pages_processed' = 0
    /\ survivors' = <<>>
    /\ pageLog' = <<>>
    /\ pc' = "plumber_page"
    /\ UNCHANGED <<reqVars, tmpExists, nTables, table_idx, result, response, exc,
                   primaryResult, latticeOutcome, cleanVars>>

\* pdfplumber.open or page.extract_tables raises (corrupt PDF, library error)
PlumberRaises ==
    /\ \/ pc = "plumber_open"
       \/ pc = "plumber_page" /\ page_num < numPages
    /\ calls' = IF pc = "plumber_open"
                THEN [calls EXCEPT !.plumber = @ + 1] ELSE calls
    /\ exc' = "pdfplumber"
    /\ pc' = "except"
    /\ UNCHANGED <<reqVars, tmpExists, numPages, page_num, nTables, table_idx,
                   all_rows, pages_processed, result, response, pageLog,
                   survivors, primaryResult, latticeOutcome, cleanVars>>

\* lines 102-109: the next page, its tables, the early continue and the counter
PlumberPage ==
    /\ pc = "plumber_page"
    /\ page_num < numPages
    /\ \E n \in 0..(MaxTables - TablesSeen) :
         /\ nTables' = n
         /\ pages_processed' = CountPage(pages_processed, n)
         /\ pageLog' = Append(pageLog, <<n, 0>>)
         /\ pc' = IF n = 0 THEN "plumber_page" ELSE "plumber_table"
    /\ page_num' = page_num + 1
    /\ table_idx' = 0
    /\ UNCHANGED <<reqVars, tmpExists, numPages, all_rows, result, response, exc,
                   survivors, primaryResult, calls, latticeOutcome, cleanVars>>

\* lines 112-131: one iteration of the loop over the page's tables
PlumberTable ==
    /\ pc = "plumber_table"
    /\ table_idx < nTables
    /\ \E table \in PlumberTables :
         LET filtered_rows == PlumberFilter(table) IN
         IF PlumberTooSmall(filtered_rows)
         THEN UNCHANGED <<all_rows, survivors, pageLog>>
         ELSE /\ all_rows' = PlumberExtend(all_rows, filtered_rows)
              /\ survivors' = Append(survivors, filtered_rows)
              /\ pageLog' = [pageLog EXCEPT ![Len(pageLog)][2] = @ + 1]
    /\ table_idx' = table_idx + 1
    /\ pc' = IF table_idx + 1 = nTables THEN "plumber_page" ELSE "plumber_table"
    /\ UNCHANGED <<reqVars, tmpExists, numPages, page_num, nTables,
                   pages_processed, result, response, exc, primaryResult, calls,
                   latticeOutcome, cleanVars>>

\* lines 133-138 and the assignment of line 76
PlumberReturn ==
    /\ pc = "plumber_page"
    /\ page_num = numPages
    /\ result' = [rows |-> clean_rows(all_rows),
                  pages_processed |-> pages_processed,
                  method_used |-> "pdfplumber",
                  total_rows |-> Len(all_rows)]
    /\ primaryResult' = result'
    /\ pc' = "select"
    /\ UNCHANGED <<reqVars, tmpExists, numPages, page_num, nTables, table_idx,
                   all_rows, pages_processed, response, exc, pageLog, survivors,
                   calls, latticeOutcome, cleanVars>>

\* lines 79-80: escalate to the fallback extractor or keep the primary result
Select ==
    /\ pc = "select"
    /\ IF TooFewRows(result)
       THEN /\ calls' = [calls EXCEPT !.camelot = @ + 1]
            /\ pc' = "camelot_lattice"
       ELSE /\ calls' = calls
            /\ pc' = "respond"
    /\ UNCHANGED <<reqVars, tmpExists, numPages, page_num, nTables, table_idx,
                   all_rows, pages_processed, result, response, exc, pageLog,
                   survivors, primaryResult, latticeOutcome, cleanVars>>

-----------------------------------------------------------------------------
(* extract_with_camelot *)

\* lines 146-147: lattice mode returns a TableList
CamelotLattice ==
    /\ pc = "camelot_lattice"
    /\ calls' = [calls EXCEPT !.lattice = @ + 1]
    /\ latticeOutcome' = "returned"
    /\ \E n \in 0..MaxCamelotTables : nTables' = n
    /\ pc' = "camelot_check"
    /\ UNCHANGED <<reqVars, tmpExists, numPages, page_num, table_idx, all_rows,
                   pages_processed, result, response, exc, pageLog, survivors,
                   primaryResult, cleanVars>>

\* lines 146-149: lattice mode raises and the bare except takes over
CamelotLatticeRaises ==
    /\ pc = "camelot_lattice"
    /\ calls' = [calls EXCEPT !.lattice = @ + 1]
    /\ latticeOutcome' = "raised"
    /\ pc' = AfterLatticeRaise
    /\ exc' = IF AfterLatticeRaise = "except" THEN "lattice" ELSE exc
    /\ UNCHANGED <<reqVars, tmpExists, numPages, page_num, nTables, table_idx,
                   all_rows, pages_processed, result, response, pageLog,
                   survivors, primaryResult, cleanVars>>

\* line 150: stream mode returns a TableList
CamelotStream ==
    /\ pc = "camelot_stream"
    /\ calls' = [calls EXCEPT !.stream = @ + 1]
    /\ \E n \in 0..MaxCamelotTables : nTables' = n
    /\ pc' = "camelot_check"
    /\ UNCHANGED <<reqVars, tmpExists, numPages, page_num, table_idx, all_rows,
                   pages_processed, result, response, exc, pageLog, survivors,
                   primaryResult, latticeOutcome, cleanVars>>

\* line 150: stream mode raises inside the handler; nothing catches it here
CamelotStreamRaises ==
    /\ pc = "camelot_stream"
    /\ calls' = [calls EXCEPT !.stream = @ + 1]
    /\ exc' = "stream"
    /\ pc' = "except"
    /\ UNCHANGED <<reqVars, tmpExists, numPages, page_num, nTables, table_idx,
                   all_rows, pages_processed, result, response, pageLog,
                   survivors, primaryResult, latticeOutcome, cleanVars>>

\* lines 152-160: the empty result, or the start of the loop over the tables
CamelotCheck ==
    /\ pc = "camelot_check"
    /\ IF nTables = 0
       THEN /\ result' = [rows |-> <<>>, pages_processed |-> 0,
                          method_used |-> "camelot", total_rows |-> 0]
            /\ pc' = "respond"
       ELSE /\ result' = result
            /\ pc' = "camelot_table"
    /\ all_rows' = <<>>
    /\ survivors' = <<>>
    /\ table_idx' = 0
    /\ UNCHANGED <<reqVars, tmpExists, numPages, page_num, nTables,
                   pages_processed, response, exc, pageLog, primaryResult, calls,
                   latticeOutcome, cleanVars>>

\* lines 162-187: one iteration of the loop over the tables
CamelotTable ==
    /\ pc = "camelot_table"
    /\ table_idx < nTables
    /\ \E rows \in CamelotTables :
         LET filtered_rows == CamelotFilter(rows) IN
         IF CamelotTooSmall(filtered_rows)
         THEN UNCHANGED <<all_rows, survivors>>
         ELSE /\ all_rows' = CamelotExtend(all_rows, filtered_rows)
              /\ survivors' = Append(survivors, filtered_rows)
    /\ table_idx' = table_idx + 1
    /\ UNCHANGED <<pc, reqVars, tmpExists, numPages, page_num, nTables,
                   pages_processed, result, response, exc, pageLog,
                   primaryResult, calls, latticeOutcome, cleanVars>>

\* lines 189-194 and the assignment of line 80
CamelotReturn ==
    /\ pc = "camelot_table"
    /\ table_idx = nTables
    /\ result' = [rows |-> clean_rows(all_rows),
                  pages_processed |-> nTables,
                  method_used |-> "camelot",
                  total_rows |-> Len(all_rows)]
    /\ pc' = "respond"
    /\ UNCHANGED <<reqVars, tmpExists, numPages, page_num, nTables, table_idx,
                   all_rows, pages_processed, response, exc, pageLog, survivors,
                   primaryResult, calls, latticeOutcome, cleanVars>>

-----------------------------------------------------------------------------
(* parse_pdf: the three ways out of the try statement *)

\* line 82
Respond ==
    /\ pc = "respond"
    /\ response' = [status |-> 200, error |-> "", message |-> "", body |-> result]
    /\ pc' = "finally"
    /\ UNCHANGED <<reqVars, tmpExists, numPages, page_num, nTables, table_idx,
                   all_rows, pages_processed, result, exc, pageLog, survivors,
                   primaryResult, calls, latticeOutcome, cleanVars>>

\* lines 84-86
Except ==
    /\ pc = "except"
    /\ response' = ErrorResponse(500, "Failed to parse PDF", exc)
    /\ pc' = "finally"
    /\ UNCHANGED <<reqVars, tmpExists, numPages, page_num, nTables, table_idx,
                   all_rows, pages_processed, result, exc, pageLog, survivors,
                   primaryResult, calls, latticeOutcome, cleanVars>>

\* lines 88-91
Finally ==
    /\ pc = "finally"
    /\ tmpExists' = IF tmpExists THEN FALSE ELSE tmpExists
    /\ pc' = "done"
    /\ UNCHANGED <<reqVars, numPages, page_num, nTables, table_idx, all_rows,
                   pages_processed, result, response, exc, pageLog, survivors,
                   primaryResult, calls, latticeOutcome, cleanVars>>

Next ==
    \/ Validate
    \/ CreateTmp
    \/ SaveUpload
    \/ SaveUploadRaises
    \/ PlumberOpen
    \/ PlumberRaises
    \/ PlumberPage
    \/ PlumberTable
    \/ PlumberReturn
    \/ Select
    \/ CamelotLattice
    \/ CamelotLatticeRaises
    \/ CamelotStream
    \/ CamelotStreamRaises
    \/ CamelotCheck
    \/ CamelotTable
    \/ CamelotReturn
    \/ Respond
    \/ Except
    \/ Finally

Spec == Init /\ [][Next]_vars

-----------------------------------------------------------------------------
(* clean_rows applied to arbitrary row sequences (cells strings or None),   *)
(* then to its own output                                                   *)

CellPool == {None, <<>>, <<" ">>, <<" ", "a", " ">>}

SeqsUpTo(set, n) == UNION {[1..k -> set] : k \in 0..n}

RowInputs == SeqsUpTo(CellPool, MaxCols)

CleanInputs == SeqsUpTo(RowInputs, MaxCleanRows)

InitClean ==
    /\ pc = "idle"
    /\ hasFile = FALSE
    /\ filename = <<>>
    /\ tmpExists = FALSE
    /\ numPages = 0
    /\ page_num = 0
    /\ nTables = 0
    /\ table_idx = 0
    /\ all_rows = <<>>
    /\ pages_processed = 0
    /\ result = NoResult
    /\ response = NoResponse
    /\ exc = ""
    /\ pageLog = <<>>
    /\ survivors = <<>>
    /\ primaryResult = NoResult
    /\ calls = NoCalls
    /\ latticeOutcome = "none"
    /\ cin \in CleanInputs
    /\ cout1 = <<>>
    /\ cout2 = <<>>
    /\ cpc = "in"

mainVars ==
    <<pc, hasFile, filename, tmpExists, numPages, page_num, nTables, table_idx,
      all_rows, pages_processed, result, response, exc, pageLog, survivors,
      primaryResult, calls, latticeOutcome>>

\* clean_rows(cin)
CleanOnce ==
    /\ cpc = "in"
    /\ cout1' = clean_rows(cin)
    /\ cpc' = "once"
    /\ UNCHANGED <<mainVars, cin, cout2>>

\* clean_rows of the previous output
CleanAgain ==
    /\ cpc = "once"
    /\ cout2' = clean_rows(cout1)
    /\ cpc' = "twice"
    /\ UNCHANGED <<mainVars, cin, cout1>>

NextClean ==
    \/ CleanOnce
    \/ CleanAgain

SpecClean == InitClean /\ [][NextClean]_vars

-----------------------------------------------------------------------------
(* Properties *)

AfterTry == pc \in {"respond", "finally", "done"}

PrimaryReturned == primaryResult # NoResult

\* C1: in a request that passed validation the fallback extractor is invoked
\* if and only if the primary extractor returned fewer than 2 rows; each
\* extractor and each camelot mode runs at most once; a 200 response carries
\* the fallback's result whenever the fallback ran (also with 0 rows) and the
\* primary's result otherwise.
C1_FallbackIffPrimaryShort ==
    /\ calls.plumber <= 1 /\ calls.camelot <= 1
    /\ calls.lattice <= 1 /\ calls.stream <= 1
    /\ pc # "select" =>
         (calls.camelot = 1 <=> (PrimaryReturned /\ Len(primaryResult.rows) < 2))
    /\ (PrimaryReturned /\ Len(primaryResult.rows) >= 2) => calls.camelot = 0
    /\ (pc = "done" /\ response.status = 200) =>
         IF calls.camelot = 1
         THEN response.body.method_used = "camelot"
         ELSE response.body = primaryResult

C1_Witness ==
    /\ pc = "done"
    /\ calls.camelot = 1
    /\ PrimaryReturned
    /\ response.status = 200
    /\ response.body.method_used = "camelot"
    /\ response.body.rows = <<>>
    /\ calls.plumber = 1

\* C2: no request ends with its temporary file still on disk.
C2_TmpFileDeletedOnEveryExit == pc = "done" => ~tmpExists

PagesWithTables == {i \in 1..Len(pageLog) : pageLog[i][1] > 0}

PagesWithSurvivor == {i \in 1..Len(pageLog) : pageLog[i][2] > 0}

\* C3 as stated: the primary extractor's pages_processed is the number of
\* pages that yielded at least one surviving table.
C3_CountsPagesWithSurvivor ==
    PrimaryReturned =>
        primaryResult.pages_processed = Cardinality(PagesWithSurvivor)

\* C3 as amended: the primary extractor's pages_processed is the number of
\* pages on which extract_tables returned at least one table, whether or not
\* any of them survived the row filter and the size test.
C3_CountsPagesWithTables ==
    /\ pc \in {"plumber_page", "plumber_table"} =>
         pages_processed = Cardinality(PagesWithTables)
    /\ PrimaryReturned =>
         primaryResult.pages_processed = Cardinality(PagesWithTables)

C3_Witness ==
    /\ PrimaryReturned
    /\ Len(pageLog) = 2
    /\ pageLog[1][1] > 0 /\ pageLog[1][2] = 0
    /\ pageLog[2][2] > 0
    /\ primaryResult.pages_processed = 2

\* C4: when lattice mode returns zero tables without raising, stream mode is
\* attempted before the empty result is returned.
C4_StreamTriedWhenLatticeFindsNothing ==
    (AfterTry /\ latticeOutcome = "returned" /\ nTables = 0) => calls.stream >= 1

\* C5: when lattice mode raises, stream mode is attempted exactly once and the
\* response is built from its tables with status 200, unless stream mode itself
\* raised; a 500 'Failed to parse PDF' carries an error of the primary
\* extractor or of stream mode only.
C5_LatticeErrorNotSurfaced ==
    /\ (latticeOutcome = "raised" /\ pc = "done") =>
         /\ calls.stream = 1
         /\ IF exc = "stream"
            THEN response.status = 500 /\ response.message = "stream"
            ELSE /\ response.status = 200
                 /\ response.body.method_used = "camelot"
                 /\ response.body.pages_processed = nTables
                 /\ response.body.total_rows = Len(all_rows)
    /\ (response.status = 500 /\ response.error = "Failed to parse PDF") =>
         response.message \in {"pdfplumber", "stream"}

C5_Witness ==
    /\ pc = "done"
    /\ latticeOutcome = "raised"
    /\ response.status = 200
    /\ Len(response.body.rows) >= 2

RECURSIVE Concat(_)
Concat(seqs) == IF seqs = <<>> THEN <<>> ELSE Head(seqs) \o Concat(Tail(seqs))

RECURSIVE SumLen(_)
SumLen(seqs) == IF seqs = <<>> THEN 0 ELSE Len(Head(seqs)) + SumLen(Tail(seqs))

HeaderHits(ts) == {i \in 2..Len(ts) : is_header_row(ts[i][1], ts[1][1])}

ExpectedRows(ts) ==
    Concat([i \in 1..Len(ts) |-> IF i \in HeaderHits(ts) THEN Tail(ts[i]) ELSE ts[i]])

\* C6: the accumulated rows are the in-order concatenation of the accepted
\* tables, each later table without its first row exactly when that row
\* matches the first row of the first table; the row count is the sum of the
\* table lengths minus the number of such matches.
C6_MergeIsConcatenation ==
    /\ \A i \in 1..Len(survivors) : Len(survivors[i]) >= 2
    /\ all_rows = ExpectedRows(survivors)
    /\ Len(all_rows) = SumLen(survivors) - Cardinality(HeaderHits(survivors))

C6_Witness ==
    /\ pc = "done"
    /\ response.status = 200
    /\ response.body.method_used = "camelot"
    /\ Len(survivors) = 3
    /\ 2 \in HeaderHits(survivors)
    /\ 3 \notin HeaderHits(survivors)

SameHeader(ts) == \A i \in 1..Len(ts) : ts[i][1] = ts[1][1]

\* C7: when every accepted table starts with the same row H, the accumulated
\* rows are H once, at position 0, followed by the data rows of every table in
\* order; is_header_row(H, H) holds for the first row H of every accepted
\* table; the row compared against stays the first row of the first table.
C7_SharedHeaderKeptOnce ==
    /\ \A i \in 1..Len(survivors) : is_header_row(survivors[i][1], survivors[i][1])
    /\ survivors # <<>> => all_rows # <<>> /\ all_rows[1] = survivors[1][1]
    /\ (survivors # <<>> /\ SameHeader(survivors)) =>
         all_rows = <<survivors[1][1]>>
                      \o Concat([i \in 1..Len(survivors) |-> Tail(survivors[i])])

C7_Witness ==
    /\ PrimaryReturned
    /\ primaryResult.method_used = "pdfplumber"
    /\ calls.camelot = 0
    /\ Len(pageLog) = 2
    /\ Len(survivors) = 3
    /\ SameHeader(survivors)
    /\ survivors[1] # survivors[2]

IsTrimmed(cell) ==
    /\ cell # None
    /\ cell = <<>> \/ (~IsSpace(cell[1]) /\ ~IsSpace(cell[Len(cell)]))

\* out is cell without its leading and trailing white space ('' for None)
IsTrimOf(out, cell) ==
    IF cell = None THEN out = <<>>
    ELSE /\ IsTrimmed(out)
         /\ \E p \in 0..Len(cell) : \E q \in 0..(Len(cell) - p) :
              /\ \A i \in 1..p : IsSpace(cell[i])
              /\ \A i \in (Len(cell) - q + 1)..Len(cell) : IsSpace(cell[i])
              /\ out = SubSeq(cell, p + 1, Len(cell) - q)

IsBlankCell(cell) == cell = None \/ \A i \in 1..Len(cell) : IsSpace(cell[i])

KeptIndexes(rows) ==
    {i \in 1..Len(rows) : \E j \in 1..Len(rows[i]) : ~IsBlankCell(rows[i][j])}

NthOf(set, k) == CHOOSE i \in set : Cardinality({j \in set : j < i}) = k - 1

IsCleanOf(out, rows) ==
    /\ Len(out) = Cardinality(KeptIndexes(rows))
    /\ \A k \in 1..Len(out) :
         LET row == rows[NthOf(KeptIndexes(rows), k)] IN
         /\ Len(out[k]) = Len(row)
         /\ \A j \in 1..Len(row) : IsTrimOf(out[k][j], row[j])

\* C8: clean_rows(clean_rows(R)) = clean_rows(R); the output has no row whose
\* cells are all empty, every output cell is a trimmed string, and the output
\* rows are the trimmed non-blank input rows in their input order.
C8_CleanRowsIdempotent ==
    /\ cpc \in {"once", "twice"} =>
         /\ \A k \in 1..Len(cout1) : \E j \in 1..Len(cout1[k]) : cout1[k][j] # <<>>
         /\ \A k \in 1..Len(cout1) : \A j \in 1..Len(cout1[k]) : IsTrimmed(cout1[k][j])
         /\ IsCleanOf(cout1, cin)
    /\ cpc = "twice" => cout2 = cout1

C8_Witness ==
    /\ cpc = "twice"
    /\ Len(cin) = 2
    /\ Len(cout1) = 1
    /\ cin[1] = <<None, <<" ">>>>
    /\ cin[2] = <<None, <<" ", "a", " ">>>>
    /\ cout2 = << <<<<>>, <<"a">>>> >>

\* C9: in every result an extractor returns, total_rows is the length of the
\* returned rows.
C9_TotalRowsIsRowCount ==
    /\ result # NoResult => result.total_rows = Len(result.rows)
    /\ PrimaryReturned => primaryResult.total_rows = Len(primaryResult.rows)
    /\ response.status = 200 => response.body.total_rows = Len(response.body.rows)

C9_Witness ==
    /\ pc = "done"
    /\ response.status = 200
    /\ response.body.method_used = "pdfplumber"
    /\ response.body.total_rows = 5
    /\ \E i \in 1..Len(pageLog) : pageLog[i][1] > pageLog[i][2]

\* C10: the accumulator never holds exactly one row, so the primary result has
\* 0 or at least 2 rows and the fallback extractor is invoked exactly when the
\* primary extractor accumulated zero rows.
C10_NeverExactlyOneRow ==
    /\ Len(all_rows) # 1
    /\ PrimaryReturned =>
         /\ primaryResult.total_rows # 1
         /\ Len(primaryResult.rows) # 1
    /\ (PrimaryReturned /\ pc # "select") =>
         (calls.camelot = 1 <=> primaryResult.total_rows = 0)

C10_Witness ==
    /\ pc = "camelot_lattice"
    /\ calls.camelot = 1
    /\ primaryResult.total_rows = 0
    /\ primaryResult.pages_processed = 2

====
